---- MODULE Spec2Model ----
(***************************************************************************)
(* secure-file-flow: the single-ticket courier (worker routes mintTicket / *)
(* claimTicket over TICKET_STORE) and the mass-mode TicketDispenser        *)
(* durable object (its /init, /ws, /claim and /ack handlers).              *)
(*                                                                         *)
(* Every handler is an async function: it runs synchronously from one      *)
(* await to the next, and other handlers may run while it is suspended.    *)
(* A request therefore carries a pc that names the await it is suspended   *)
(* at, and one action is the synchronous code between two awaits.          *)
(***************************************************************************)
EXTENDS Integers, Sequences, FiniteSets, TLC

\* ---------------------------------------------------------------- bounds
MaxUUID == 3            \* crypto.randomUUID() results drawn in one run
MaxGateUUID == 4        \* tickets of the one session that tries the gate
MaxSingleReqs == 3      \* single-ticket requests (mint or claim) in one run
MaxMassReqs == 2        \* dispenser requests in flight at the same time
MaxSockets == 2         \* operator sockets opened in one run
MaxOutbox == 2          \* undelivered messages per operator socket
MaxSmallTicks == 1      \* 1 ms clock steps between two 5-minute steps
MaxBigTicks == 1        \* 5-minute clock steps in one run

maxConcurrentDownloads == 2     \* the gate's cap, scaled down from 50
BatchLimit == 2                 \* ids in one batch, scaled down from 20

\* ------------------------------------------------------- program constants
TimeoutMs == 5 * 60 * 1000
DefaultCount == 100
DefaultMime == "application/octet-stream"

\* ------------------------------------------------------------ value spaces
UUIDs == 1 .. MaxUUID
NoId == 0                       \* a missing ticket id parameter
StrayId == MaxUUID + 1          \* a ticket id that was never generated
SReqs == 1 .. MaxSingleReqs
MReqs == 1 .. MaxMassReqs
Sockets == 1 .. MaxSockets

NoKey == "none"                 \* a missing public_key parameter
\* "malformed" is not a JWK importKey accepts; "weak" is an RSA key that
\* imports but is too short to wrap a 256-bit key under OAEP with SHA-256.
PublicKeys == {"jwkA", "jwkB", "malformed", "weak"}

NoFile == [present |-> FALSE, data |-> "", type |-> ""]
Files == { [present |-> TRUE, data |-> "d1", type |-> "text/plain"],
           [present |-> TRUE, data |-> "d2", type |-> ""] }

NoContent == [form |-> "none", data |-> "", key |-> 0, iv |-> 0]
NoAsset == [content |-> NoContent, mimeType |-> ""]
NoResp == [status |-> 0, kind |-> "none"]

\* ------------------------------------------------------------------ state
VARIABLES
    TICKET_STORE,       \* single mode: ticket id -> asset
    nextUUID,           \* number of ids crypto.randomUUID() has produced
    sreq,               \* single mode: the requests and where each stands
    file,               \* dispenser: session payload (NoContent = null)
    mimeType,           \* dispenser: session MIME type
    tickets,            \* dispenser: ticket id -> Ticket
    currentDownloads,   \* dispenser: the download gate counter
    sellerSockets,      \* dispenser: server ends of the operator sockets
    storage,            \* dispenser: durable object storage
    mreq,               \* dispenser: the requests and where each stands
    sock,               \* operator sockets: state and undelivered messages
    seller,             \* operator page: massTickets and currentTicketId
    now                 \* Date.now()

singleVars == <<TICKET_STORE, sreq>>
massVars == <<file, mimeType, tickets, currentDownloads, sellerSockets,
              storage, mreq, sock, seller, now>>
vars == <<TICKET_STORE, nextUUID, sreq, file, mimeType, tickets,
          currentDownloads, sellerSockets, storage, mreq, sock, seller, now>>

\* ------------------------------------------------------------ pure helpers
\* file.arrayBuffer() of an uploaded file: the bytes as the sender has them.
ArrayBufferOf(f) == [form |-> "plain", data |-> f.data, key |-> 0, iv |-> 0]

\* The sender client: formData.append("file", file), the picked file as is.
CourierFormData(f) == [file |-> f]

\* arrayBufferToBase64 / base64ToArrayBuffer
arrayBufferToBase64(buf) == <<"b64", buf>>
base64ToArrayBuffer(s) == s[2]

\* crypto.subtle.importKey('jwk', public_key, RSA-OAEP): throws on a bad key
ImportKeyThrows(public_key) == public_key = "malformed"

\* crypto.subtle.encrypt(AES-GCM, iv, key, content)
AesGcmEncrypt(key, iv, content) ==
    [form |-> "aesgcm", data |-> content.data, key |-> key, iv |-> iv]

\* crypto.subtle.wrapKey rejects when the key cannot hold the message
WrapKeyThrows(public_key) == public_key = "weak"

WrapKeyUnderFirstKey(aesKey, publicKey) ==
    [wrapped |-> aesKey, under |-> "jwkA"]

\* crypto.subtle.wrapKey('raw', aesKey, userPublicKey, RSA-OAEP)
WrapKey(aesKey, publicKey) == [wrapped |-> aesKey, under |-> publicKey]

\* file.type || 'application/octet-stream'
MimeOrDefault(type) == IF type = "" THEN DefaultMime ELSE type

\* TICKET_STORE.set(ticketId, asset)
StoreSet(store, id, asset) ==
    [t \in DOMAIN store \cup {id} |-> IF t = id THEN asset ELSE store[t]]

StoreDeleteNothing(store, id) == store

\* TICKET_STORE.delete(ticket_id)
StoreDelete(store, id) == [t \in DOMAIN store \ {id} |-> store[t]]

CatchStoreBurns(store, id) == StoreDelete(store, id)

\* catch (err): the handler answers 500 and makes no TICKET_STORE call
CatchStore(store, id) == store

\* TICKET_STORE.get(ticket_id)
StoreHas(store, id) == id \in DOMAIN store

\* ------------------------------------------------------ single-ticket mode
IdleSReq == [op |-> "none", pc |-> "idle", file |-> NoFile, ticket_id |-> NoId,
             public_key |-> NoKey, asset |-> NoAsset, aesKey |-> 0, iv |-> 0,
             encryptedFile |-> NoContent, resp |-> NoResp]

Reply(r, resp) == [sreq EXCEPT ![r].pc = "done", ![r].resp = resp]

\* Requests are taken in slot order.
CanStart(r) ==
    /\ sreq[r].pc = "idle"
    /\ \A q \in SReqs : q < r => sreq[q].pc # "idle"

\* POST /api/mint arrives; the handler awaits c.req.parseBody().
MintArrive(r, f) ==
    /\ CanStart(r)
    /\ sreq' = [sreq EXCEPT ![r].op = "mint", ![r].pc = "parseBody",
                            ![r].file = CourierFormData(f).file]
    /\ UNCHANGED <<TICKET_STORE, nextUUID, massVars>>

\* parseBody resolved: file check, randomUUID, then await file.arrayBuffer().
MintAfterParseBody(r) ==
    /\ sreq[r].op = "mint" /\ sreq[r].pc = "parseBody"
    /\ IF ~sreq[r].file.present
       THEN /\ sreq' = Reply(r, [status |-> 400, kind |-> "error"])
            /\ UNCHANGED nextUUID
       ELSE /\ nextUUID < MaxUUID
            /\ nextUUID' = nextUUID + 1
            /\ sreq' = [sreq EXCEPT ![r].pc = "arrayBuffer",
                                    ![r].ticket_id = nextUUID + 1]
    /\ UNCHANGED <<TICKET_STORE, massVars>>

\* arrayBuffer resolved: TICKET_STORE.set and the JSON answer.
MintAfterArrayBuffer(r) ==
    /\ sreq[r].op = "mint" /\ sreq[r].pc = "arrayBuffer"
    /\ TICKET_STORE' = StoreSet(TICKET_STORE, sreq[r].ticket_id,
                          [content |-> ArrayBufferOf(sreq[r].file),
                           mimeType |-> MimeOrDefault(sreq[r].file.type)])
    /\ sreq' = Reply(r, [status |-> 200, kind |-> "minted",
                         ticket_id |-> sreq[r].ticket_id])
    /\ UNCHANGED <<nextUUID, massVars>>

\* The ids a receiver can name: those a mint has answered with (the claim
\* url carries them), a made-up one, or none at all.
Nameable(tid) ==
    \/ tid \in {NoId, StrayId}
    \/ \E m \in SReqs : sreq[m].resp.kind = "minted" /\ sreq[m].ticket_id = tid

\* POST /api/claim arrives; the handler awaits c.req.json().
ClaimArrive(r, tid, pk) ==
    /\ CanStart(r)
    /\ Nameable(tid)
    /\ sreq' = [sreq EXCEPT ![r].op = "claim", ![r].pc = "json",
                            ![r].ticket_id = tid, ![r].public_key = pk]
    /\ UNCHANGED <<TICKET_STORE, nextUUID, massVars>>

\* json resolved: parameter check, TICKET_STORE.get, then await importKey.
ClaimAfterJson(r) ==
    /\ sreq[r].op = "claim" /\ sreq[r].pc = "json"
    /\ IF sreq[r].ticket_id = NoId \/ sreq[r].public_key = NoKey
       THEN sreq' = Reply(r, [status |-> 400, kind |-> "error"])
       ELSE IF ~StoreHas(TICKET_STORE, sreq[r].ticket_id)
       THEN sreq' = Reply(r, [status |-> 404, kind |-> "error"])
       ELSE sreq' = [sreq EXCEPT ![r].pc = "importKey",
                                 ![r].asset = TICKET_STORE[sreq[r].ticket_id]]
    /\ UNCHANGED <<TICKET_STORE, nextUUID, massVars>>

\* importKey settled: a rejection lands in the catch; else await generateKey.
ClaimAfterImportKey(r) ==
    /\ sreq[r].op = "claim" /\ sreq[r].pc = "importKey"
    /\ IF ImportKeyThrows(sreq[r].public_key)
       THEN /\ sreq' = Reply(r, [status |-> 500, kind |-> "error"])
            /\ TICKET_STORE' = CatchStore(TICKET_STORE, sreq[r].ticket_id)
       ELSE /\ sreq' = [sreq EXCEPT ![r].pc = "generateKey"]
            /\ UNCHANGED TICKET_STORE
    /\ UNCHANGED <<nextUUID, massVars>>

\* generateKey resolved (a key no other request has): random iv, await encrypt.
ClaimAfterGenerateKey(r) ==
    /\ sreq[r].op = "claim" /\ sreq[r].pc = "generateKey"
    /\ sreq' = [sreq EXCEPT ![r].pc = "encrypt", ![r].aesKey = r, ![r].iv = r]
    /\ UNCHANGED <<TICKET_STORE, nextUUID, massVars>>

\* encrypt resolved: await wrapKey.
ClaimAfterEncrypt(r) ==
    /\ sreq[r].op = "claim" /\ sreq[r].pc = "encrypt"
    /\ sreq' = [sreq EXCEPT ![r].pc = "wrapKey",
                   ![r].encryptedFile =
                       AesGcmEncrypt(sreq[r].aesKey, sreq[r].iv,
                                     sreq[r].asset.content)]
    /\ UNCHANGED <<TICKET_STORE, nextUUID, massVars>>

\* wrapKey settled: a rejection lands in the catch; else burn the ticket
\* and answer with the bundle.
ClaimAfterWrapKey(r) ==
    /\ sreq[r].op = "claim" /\ sreq[r].pc = "wrapKey"
    /\ IF WrapKeyThrows(sreq[r].public_key)
       THEN /\ sreq' = Reply(r, [status |-> 500, kind |-> "error"])
            /\ TICKET_STORE' = CatchStore(TICKET_STORE, sreq[r].ticket_id)
       ELSE /\ TICKET_STORE' = StoreDelete(TICKET_STORE, sreq[r].ticket_id)
            /\ sreq' = Reply(r, [status |-> 200, kind |-> "bundle",
                  encrypted_file |->
                      arrayBufferToBase64(sreq[r].encryptedFile),
                  wrapped_key |->
                      arrayBufferToBase64(
                          WrapKey(sreq[r].aesKey, sreq[r].public_key)),
                  iv |-> arrayBufferToBase64(sreq[r].iv),
                  mime_type |-> sreq[r].asset.mimeType])
    /\ UNCHANGED <<nextUUID, massVars>>

\* ------------------------------------- single-ticket mode: the receiver
\* crypto.subtle.generateKey(RSA-OAEP) and exportKey("jwk", publicKey): the
\* pair whose public half is the JWK the claim posts.
GenerateKeyPair(jwk) == [publicKey |-> jwk, privateKey |-> <<"private", jwk>>]

DecryptFailed == -1             \* crypto.subtle.decrypt rejected

\* crypto.subtle.decrypt(RSA-OAEP, privateKey, wrappedKey): the raw AES key
\* when wrappedKey was wrapped under the public half of this pair.
RsaOaepDecrypt(privateKey, wrappedKey) ==
    IF privateKey = <<"private", wrappedKey.under>>
    THEN wrappedKey.wrapped
    ELSE DecryptFailed

\* crypto.subtle.decrypt(AES-GCM, iv, key, data): the plaintext when key and
\* iv are those of the encryption, a rejection otherwise.
AesGcmDecrypt(key, iv, data) ==
    IF data.form = "aesgcm" /\ data.key = key /\ data.iv = iv
    THEN [form |-> "plain", data |-> data.data, key |-> 0, iv |-> 0]
    ELSE NoContent

\* handleClaim after the POST: unwrap the key, decrypt the file, and offer it
\* for download as a Blob of type mime_type.
ReceiverOpens(keyPair, bundle) ==
    LET aesKeyRaw == RsaOaepDecrypt(keyPair.privateKey,
                                    base64ToArrayBuffer(bundle.wrapped_key))
    IN [content |-> AesGcmDecrypt(aesKeyRaw,
                                  base64ToArrayBuffer(bundle.iv),
                                  base64ToArrayBuffer(bundle.encrypted_file)),
        mimeType |-> bundle.mime_type]

\* ---------------------------------------------------------- mass mode: data
StartNow == 1                   \* Date.now() when the run begins
NoTime == -1                    \* reservedAt not set
\* The form posted to /init: the "file" field and the "count" field as
\* parseInt reads it.
InitForms ==
    { [file |-> [present |-> TRUE, data |-> "d1", type |-> "text/plain"],
       count |-> 2],
      [file |-> [present |-> TRUE, data |-> "d2", type |-> ""], count |-> 1],
      [file |-> [present |-> TRUE, data |-> "d2", type |-> ""], count |-> -1],
      [file |-> NoFile, count |-> 1] }

TicketUnstamped(id, status, reservedAt) ==
    [id |-> id, status |-> status, reservedAt |-> NoTime]

Ticket(id, status, reservedAt) ==
    [id |-> id, status |-> status, reservedAt |-> reservedAt]

\* was: the status /ack found on its ticket before overwriting it (history
\* kept only while the handler waits for its storage put).
IdleMReq == [op |-> "none", pc |-> "idle", ticketId |-> NoId, file |-> NoFile,
             count |-> 0, was |-> "none", resp |-> NoResp]

\* A request is served by the first free slot.
Free(r) ==
    /\ mreq[r].pc = "idle"
    /\ \A q \in MReqs : q < r => mreq[q].pc # "idle"

\* The ids a receiver can name: those randomUUID has produced so far, a
\* made-up one, or none at all.
Generated(tid) == tid \in {NoId, StrayId} \/ tid <= nextUUID

MReply(r, resp) ==
    [mreq EXCEPT ![r].pc = "done", ![r].was = "none", ![r].resp = resp]

\* parseInt(formData.get("count"), 10) || 100
ParseCount(c) == IF c = 0 THEN DefaultCount ELSE c

\* ticket.reservedAt || 0
ReservedAtOrZero(ticket) ==
    IF ticket.reservedAt = NoTime THEN 0 ELSE ticket.reservedAt

ExpiredAtTimeout(ticket, t) == t - ReservedAtOrZero(ticket) >= TimeoutMs

\* Date.now() - (ticket.reservedAt || 0) > 5 * 60 * 1000
Expired(ticket, t) == t - ReservedAtOrZero(ticket) > TimeoutMs

GateFullOffByOne(cd) == cd > maxConcurrentDownloads

\* this.currentDownloads >= this.maxConcurrentDownloads
GateFull(cd) == cd >= maxConcurrentDownloads

IsClaimedNever(ticket) == FALSE

\* ticket.status === "CLAIMED"
IsClaimed(ticket) == ticket.status = "CLAIMED"

\* Math.max(0, this.currentDownloads - 1)
ReleaseSlot(cd) == IF cd - 1 > 0 THEN cd - 1 ELSE 0

NewTicketsKeepsOld(first, count) ==
    [id \in DOMAIN tickets \cup ((first + 1) .. (first + count)) |->
        IF id > first THEN Ticket(id, "AVAILABLE", NoTime) ELSE tickets[id]]

\* this.tickets.clear();
\* for (let i = 0; i < count; i++) tickets.set(randomUUID(), AVAILABLE)
NewTickets(first, count) ==
    [id \in (first + 1) .. (first + count) |-> Ticket(id, "AVAILABLE", NoTime)]

\* The ids of a Map in insertion order: ids are generated in increasing order.
RECURSIVE InOrder(_)
InOrder(S) ==
    IF S = {} THEN << >>
    ELSE LET m == CHOOSE x \in S : \A y \in S : x <= y
         IN <<m>> \o InOrder(S \ {m})

TakeAll(seq, n) == seq

\* .slice(0, n)
Take(seq, n) == IF Len(seq) <= n THEN seq ELSE SubSeq(seq, 1, n)

\* sendBatchToSeller: the first BatchLimit AVAILABLE ticket ids
BatchOf(tks) ==
    [type |-> "batch",
     tickets |-> Take(InOrder({id \in DOMAIN tks :
                                   tks[id].status = "AVAILABLE"}), BatchLimit),
     ticketId |-> NoId]

ClaimedMsg(id) == [type |-> "claimed", tickets |-> << >>, ticketId |-> id]

\* ws.send throws on a socket whose peer is gone
SendThrows(s) == sock[s].state # "open"

BroadcastSockStopsAtThrow(msg) ==
    [s \in Sockets |->
        IF /\ s \in sellerSockets
           /\ \A q \in sellerSockets : q <= s => ~SendThrows(q)
        THEN [sock[s] EXCEPT !.outbox = Append(@, msg)]
        ELSE sock[s]]

\* broadcastToSeller: send to every socket of the set, drop those that throw
BroadcastSock(msg) ==
    [s \in Sockets |->
        IF s \in sellerSockets /\ ~SendThrows(s)
        THEN [sock[s] EXCEPT !.outbox = Append(@, msg)]
        ELSE sock[s]]

BroadcastSetKeepsAll == sellerSockets

\* the sockets left in the set when broadcastToSeller returns
BroadcastSet == {s \in sellerSockets : ~SendThrows(s)}

OutboxRoom == \A s \in sellerSockets : Len(sock[s].outbox) < MaxOutbox

\* ------------------------------------------------ mass mode: /init handler
InitArrive(r, form) ==
    /\ Free(r)
    /\ mreq' = [mreq EXCEPT ![r].op = "init", ![r].pc = "formData",
                            ![r].file = form.file, ![r].count = form.count]
    /\ UNCHANGED <<singleVars, seller, nextUUID, file, mimeType, tickets,
                   currentDownloads, sellerSockets, storage, sock, now>>

\* formData resolved: count, file check, then await file.arrayBuffer().
InitAfterFormData(r) ==
    /\ mreq[r].op = "init" /\ mreq[r].pc = "formData"
    /\ IF ~mreq[r].file.present
       THEN mreq' = MReply(r, [status |-> 400, kind |-> "nofile"])
       ELSE mreq' = [mreq EXCEPT ![r].pc = "arrayBuffer",
                                 ![r].count = ParseCount(@)]
    /\ UNCHANGED <<singleVars, seller, nextUUID, file, mimeType, tickets,
                   currentDownloads, sellerSockets, storage, sock, now>>

\* arrayBuffer resolved: replace file, mimeType and tickets; await put(file).
InitAfterArrayBufferWithin(r, maxUUID) ==
    /\ mreq[r].op = "init" /\ mreq[r].pc = "arrayBuffer"
    /\ LET n == IF mreq[r].count > 0 THEN mreq[r].count ELSE 0
       IN /\ nextUUID + n <= maxUUID
          /\ nextUUID' = nextUUID + n
          /\ tickets' = NewTickets(nextUUID, n)
    /\ file' = ArrayBufferOf(mreq[r].file)
    /\ mimeType' = mreq[r].file.type
    /\ storage' = [storage EXCEPT !.file = file', !.has = @ \cup {"file"}]
    /\ mreq' = [mreq EXCEPT ![r].pc = "putFile", ![r].file = NoFile]
    /\ UNCHANGED <<singleVars, seller, currentDownloads, sellerSockets, sock, now>>

InitAfterArrayBuffer(r) == InitAfterArrayBufferWithin(r, MaxUUID)

\* put(file) resolved: await put(mimeType).
InitAfterPutFile(r) ==
    /\ mreq[r].op = "init" /\ mreq[r].pc = "putFile"
    /\ storage' = [storage EXCEPT !.mimeType = mimeType,
                                  !.has = @ \cup {"mimeType"}]
    /\ mreq' = [mreq EXCEPT ![r].pc = "putMime"]
    /\ UNCHANGED <<singleVars, seller, nextUUID, file, mimeType, tickets,
                   currentDownloads, sellerSockets, sock, now>>

\* put(mimeType) resolved: await put(tickets).
InitAfterPutMime(r) ==
    /\ mreq[r].op = "init" /\ mreq[r].pc = "putMime"
    /\ storage' = [storage EXCEPT !.tickets = tickets,
                                  !.has = @ \cup {"tickets"}]
    /\ mreq' = [mreq EXCEPT ![r].pc = "putTickets"]
    /\ UNCHANGED <<singleVars, seller, nextUUID, file, mimeType, tickets,
                   currentDownloads, sellerSockets, sock, now>>

\* put(tickets) resolved: answer {message, ticket_count: count}.
InitAfterPutTickets(r) ==
    /\ mreq[r].op = "init" /\ mreq[r].pc = "putTickets"
    /\ mreq' = MReply(r, [status |-> 200, kind |-> "initialized",
                          ticket_count |-> mreq[r].count])
    /\ UNCHANGED <<singleVars, seller, nextUUID, file, mimeType, tickets,
                   currentDownloads, sellerSockets, storage, sock, now>>

\* -------------------------------------------------- mass mode: /ws handler
\* A new socket pair: add the server end, accept, send the batch.
WsAccept(s) ==
    /\ sock[s].state = "unused"
    /\ sellerSockets' = sellerSockets \cup {s}
    /\ sock' = [sock EXCEPT ![s] = [state |-> "open",
                                     outbox |-> <<BatchOf(tickets)>>]]

\* GET /ws with an Upgrade header arrives.
WsConnect(s) ==
    /\ WsAccept(s)
    /\ UNCHANGED <<singleVars, seller, nextUUID, file, mimeType, tickets,
                   currentDownloads, storage, mreq, now>>

\* The operator's end goes away; the close event is not yet dispatched.
SocketBreak(s) ==
    /\ sock[s].state = "open"
    /\ sock' = [sock EXCEPT ![s] = [state |-> "broken", outbox |-> << >>]]
    /\ UNCHANGED <<singleVars, seller, nextUUID, file, mimeType, tickets,
                   currentDownloads, sellerSockets, storage, mreq, now>>

\* server.addEventListener("close", () => this.sellerSockets.delete(server))
CloseEvent(s) ==
    /\ sock[s].state = "broken"
    /\ sock' = [sock EXCEPT ![s].state = "closed"]
    /\ sellerSockets' = sellerSockets \ {s}
    /\ UNCHANGED <<singleVars, seller, nextUUID, file, mimeType, tickets,
                   currentDownloads, storage, mreq, now>>

\* -------------------------------------------- operator page: MassSellerView
\* useState<string[]>([]) and useState<string | null>(null)
NewSeller == [massTickets |-> << >>, currentTicketId |-> NoId]

\* prev.filter((t) => t !== ticketId)
Without(list, id) == SelectSeq(list, LAMBDA t : t # id)

IncludesId(list, id) == \E i \in 1 .. Len(list) : list[i] = id

\* ws.onmessage: a batch is appended to the list, a claimed id is filtered
\* out of it.
OnMessage(list, msg) ==
    IF msg.type = "batch" THEN list \o msg.tickets
    ELSE IF msg.type = "claimed" THEN Without(list, msg.ticketId)
    ELSE list

\* The auto-advance effect: show the head of the list when nothing is shown
\* or when the ticket shown has left the list.
AutoAdvance(list, current) ==
    IF current = NoId \/ ~IncludesId(list, current)
    THEN IF list = << >> THEN NoId ELSE Head(list)
    ELSE current

\* The peer of socket s takes the next message off it; what it does with
\* the message is its own business.
OperatorReceive(s) ==
    /\ sock[s].state = "open"
    /\ sock[s].outbox # << >>
    /\ sock' = [sock EXCEPT ![s].outbox = Tail(@)]
    /\ UNCHANGED <<singleVars, seller, nextUUID, file, mimeType, tickets,
                   currentDownloads, sellerSockets, storage, mreq, now>>

\* The peer of socket s is the operator page: ws.onmessage runs on the next
\* message, then the auto-advance effect.
SellerOnMessage(s) ==
    /\ sock[s].state = "open"
    /\ sock[s].outbox # << >>
    /\ sock' = [sock EXCEPT ![s].outbox = Tail(@)]
    /\ LET list == OnMessage(seller.massTickets, Head(sock[s].outbox))
       IN seller' = [massTickets |-> list,
                     currentTicketId |->
                         AutoAdvance(list, seller.currentTicketId)]
    /\ UNCHANGED <<singleVars, nextUUID, file, mimeType, tickets,
                   currentDownloads, sellerSockets, storage, mreq, now>>

\* ----------------------------------------------- mass mode: /claim handler
\* The ticket as the state machine of /claim leaves it before the gate.
AfterExpiryCheck(ticket, t) ==
    IF ticket.status = "RESERVED" /\ Expired(ticket, t)
    THEN [ticket EXCEPT !.status = "AVAILABLE"]
    ELSE ticket

\* The /claim handler run for request r on ticket id tid: everything up to
\* the await of put(tickets).
ClaimRun(r, tid) ==
    /\ IF tid = NoId \/ tid \notin DOMAIN tickets
       THEN /\ mreq' = [mreq EXCEPT ![r] = [IdleMReq EXCEPT !.op = "claim",
                           !.ticketId = tid, !.pc = "done",
                           !.resp = [status |-> 403, kind |-> "invalid"]]]
            /\ UNCHANGED <<tickets, currentDownloads, storage>>
       ELSE IF IsClaimed(tickets[tid])
       THEN /\ mreq' = [mreq EXCEPT ![r] = [IdleMReq EXCEPT !.op = "claim",
                           !.ticketId = tid, !.pc = "done",
                           !.resp = [status |-> 410, kind |-> "used"]]]
            /\ UNCHANGED <<tickets, currentDownloads, storage>>
       ELSE IF GateFull(currentDownloads)
       THEN /\ tickets' = [tickets EXCEPT
                              ![tid] = AfterExpiryCheck(tickets[tid], now)]
            /\ mreq' = [mreq EXCEPT ![r] = [IdleMReq EXCEPT !.op = "claim",
                           !.ticketId = tid, !.pc = "done",
                           !.resp = [status |-> 200, kind |-> "waiting",
                                     contentType |-> "text/html"]]]
            /\ UNCHANGED <<currentDownloads, storage>>
       ELSE /\ currentDownloads' = currentDownloads + 1
            /\ tickets' = [tickets EXCEPT
                              ![tid] = Ticket(tid, "RESERVED", now)]
            /\ storage' = [storage EXCEPT !.tickets = tickets',
                                          !.has = @ \cup {"tickets"}]
            /\ mreq' = [mreq EXCEPT ![r] = [IdleMReq EXCEPT !.op = "claim",
                           !.ticketId = tid, !.pc = "claimPut"]]
    /\ UNCHANGED <<singleVars, seller, nextUUID, file, mimeType, sellerSockets,
                   sock, now>>

\* GET /claim?ticket=.. arrives.
ClaimFetch(r, tid) ==
    /\ Free(r)
    /\ Generated(tid)
    /\ ClaimRun(r, tid)

\* put(tickets) resolved: answer with this.file, this.mimeType, X-Ticket-ID.
ClaimAfterPut(r) ==
    /\ mreq[r].op = "claim" /\ mreq[r].pc = "claimPut"
    /\ mreq' = MReply(r, [status |-> 200, kind |-> "file", body |-> file,
                          contentType |-> mimeType,
                          xTicketId |-> mreq[r].ticketId])
    /\ UNCHANGED <<singleVars, seller, nextUUID, file, mimeType, tickets,
                   currentDownloads, sellerSockets, storage, sock, now>>

\* ------------------------------------------------- mass mode: /ack handler
AckArrive(r, tid) ==
    /\ Free(r)
    /\ Generated(tid)
    /\ mreq' = [mreq EXCEPT ![r].op = "ack", ![r].pc = "json",
                            ![r].ticketId = tid]
    /\ UNCHANGED <<singleVars, seller, nextUUID, file, mimeType, tickets,
                   currentDownloads, sellerSockets, storage, sock, now>>

\* json resolved: known ticket -> CLAIMED and await put(tickets); else 400.
AckAfterJson(r) ==
    /\ mreq[r].op = "ack" /\ mreq[r].pc = "json"
    /\ IF mreq[r].ticketId \in DOMAIN tickets
       THEN /\ tickets' = [tickets EXCEPT
                              ![mreq[r].ticketId].status = "CLAIMED"]
            /\ storage' = [storage EXCEPT !.tickets = tickets',
                                          !.has = @ \cup {"tickets"}]
            /\ mreq' = [mreq EXCEPT ![r].pc = "ackPut",
                                    ![r].was = tickets[mreq[r].ticketId].status]
       ELSE /\ mreq' = MReply(r, [status |-> 400, kind |-> "unknown"])
            /\ UNCHANGED <<tickets, storage>>
    /\ UNCHANGED <<singleVars, seller, nextUUID, file, mimeType, currentDownloads,
                   sellerSockets, sock, now>>

\* put(tickets) resolved: free the slot, broadcast "claimed", answer Burned.
AckAfterPut(r) ==
    /\ mreq[r].op = "ack" /\ mreq[r].pc = "ackPut"
    /\ OutboxRoom
    /\ currentDownloads' = ReleaseSlot(currentDownloads)
    /\ sock' = BroadcastSock(ClaimedMsg(mreq[r].ticketId))
    /\ sellerSockets' = BroadcastSet
    /\ mreq' = MReply(r, [status |-> 200, kind |-> "burned"])
    /\ UNCHANGED <<singleVars, seller, nextUUID, file, mimeType, tickets, storage,
                   now>>

\* ------------------------------------------------ mass mode: environment
\* The caller takes the response; the slot serves the next request.
TakeResponse(r) ==
    /\ mreq[r].pc = "done"
    /\ mreq' = [mreq EXCEPT ![r] = IdleMReq]
    /\ UNCHANGED <<singleVars, seller, nextUUID, file, mimeType, tickets,
                   currentDownloads, sellerSockets, storage, sock, now>>

\* Date.now() moves on, by a millisecond or by the length of the timeout.
Tick(d) ==
    /\ d \in {1, TimeoutMs}
    /\ d = 1 => (now - StartNow) % TimeoutMs < MaxSmallTicks
    /\ d = TimeoutMs => (now - StartNow) \div TimeoutMs < MaxBigTicks
    /\ now' = now + d
    /\ UNCHANGED <<singleVars, seller, nextUUID, file, mimeType, tickets,
                   currentDownloads, sellerSockets, storage, mreq, sock>>

\* ------------------------------------------------------------- initial state
Init ==
    /\ TICKET_STORE = << >>
    /\ nextUUID = 0
    /\ sreq = [r \in SReqs |-> IdleSReq]
    /\ file = NoContent
    /\ mimeType = DefaultMime
    /\ tickets = << >>
    /\ currentDownloads = 0
    /\ sellerSockets = {}
    /\ storage = [file |-> NoContent, mimeType |-> "", tickets |-> << >>,
                  has |-> {}]
    /\ mreq = [r \in MReqs |-> IdleMReq]
    /\ sock = [s \in Sockets |-> [state |-> "unused", outbox |-> << >>]]
    /\ seller = NewSeller
    /\ now = StartNow

NextSingle ==
    \/ \E r \in SReqs, f \in Files \cup {NoFile} : MintArrive(r, f)
    \/ \E r \in SReqs : MintAfterParseBody(r)
    \/ \E r \in SReqs : MintAfterArrayBuffer(r)
    \/ \E r \in SReqs, tid \in UUIDs \cup {NoId, StrayId},
          pk \in PublicKeys \cup {NoKey} : ClaimArrive(r, tid, pk)
    \/ \E r \in SReqs : ClaimAfterJson(r)
    \/ \E r \in SReqs : ClaimAfterImportKey(r)
    \/ \E r \in SReqs : ClaimAfterGenerateKey(r)
    \/ \E r \in SReqs : ClaimAfterEncrypt(r)
    \/ \E r \in SReqs : ClaimAfterWrapKey(r)

NextMass ==
    \/ \E r \in MReqs, form \in InitForms : InitArrive(r, form)
    \/ \E r \in MReqs : InitAfterFormData(r)
    \/ \E r \in MReqs : InitAfterArrayBuffer(r)
    \/ \E r \in MReqs : InitAfterPutFile(r)
    \/ \E r \in MReqs : InitAfterPutMime(r)
    \/ \E r \in MReqs : InitAfterPutTickets(r)
    \/ \E r \in MReqs, tid \in UUIDs \cup {NoId, StrayId} : ClaimFetch(r, tid)
    \/ \E r \in MReqs : ClaimAfterPut(r)
    \/ \E r \in MReqs, tid \in UUIDs \cup {NoId, StrayId} : AckArrive(r, tid)
    \/ \E r \in MReqs : AckAfterJson(r)
    \/ \E r \in MReqs : AckAfterPut(r)
    \/ \E r \in MReqs : TakeResponse(r)
    \/ \E d \in {1, TimeoutMs} : Tick(d)

SpecSingle == Init /\ [][NextSingle]_vars

SpecMass == Init /\ [][NextMass]_vars

\* The forms the operator posts in the runs with sockets.
OperatorForms ==
    { [file |-> [present |-> TRUE, data |-> "d1", type |-> "text/plain"],
       count |-> 3],
      [file |-> [present |-> TRUE, data |-> "d2", type |-> ""], count |-> 1] }

\* The dispenser with one operator socket. The clock stands still in these
\* runs: the socket code and the batch listing read no time.
NextOperator ==
    \/ \E r \in MReqs, form \in OperatorForms : InitArrive(r, form)
    \/ \E r \in MReqs : InitAfterFormData(r)
    \/ \E r \in MReqs : InitAfterArrayBuffer(r)
    \/ \E r \in MReqs : InitAfterPutFile(r)
    \/ \E r \in MReqs : InitAfterPutMime(r)
    \/ \E r \in MReqs : InitAfterPutTickets(r)
    \/ \E r \in MReqs, tid \in UUIDs \cup {NoId, StrayId} : ClaimFetch(r, tid)
    \/ \E r \in MReqs : ClaimAfterPut(r)
    \/ \E r \in MReqs, tid \in UUIDs \cup {NoId, StrayId} : AckArrive(r, tid)
    \/ \E r \in MReqs : AckAfterJson(r)
    \/ \E r \in MReqs : AckAfterPut(r)
    \/ \E r \in MReqs : TakeResponse(r)
    \/ \E s \in Sockets : (\A q \in Sockets : s <= q) /\ WsConnect(s)
    \/ \E s \in Sockets : SocketBreak(s)
    \/ \E s \in Sockets : CloseEvent(s)
    \/ \E s \in Sockets : OperatorReceive(s)

SpecOperator == Init /\ [][NextOperator]_vars

\* ------------------------------------------- several operators connected
\* The form the operator posts in the runs with several sockets.
FanOutForms ==
    { [file |-> [present |-> TRUE, data |-> "d2", type |-> ""], count |-> 1] }

\* The requests that wait in a storage operation (await storage.put).
InStorage == {r \in MReqs : mreq[r].pc \in {"putFile", "putMime", "putTickets",
                                              "claimPut", "ackPut"}}

InputGateIgnored == TRUE

\* The object's input gate: while a handler waits in a storage operation no
\* other event (request, body, socket upgrade, close) is delivered to it.
InputGateOpen == InStorage = {}

\* Sockets are opened in order.
NextSocket(s) == \A q \in Sockets : q < s => sock[q].state # "unused"

\* The dispenser with several operator sockets, events delivered through
\* the input gate; the clock stands still as in NextOperator.
NextFanOut ==
    \/ /\ InputGateOpen
       /\ \/ \E r \in MReqs, form \in FanOutForms : InitArrive(r, form)
          \/ \E r \in MReqs : InitAfterFormData(r)
          \/ \E r \in MReqs : InitAfterArrayBuffer(r)
          \/ \E r \in MReqs, tid \in UUIDs : ClaimFetch(r, tid)
          \/ \E r \in MReqs, tid \in UUIDs : AckArrive(r, tid)
          \/ \E r \in MReqs : AckAfterJson(r)
          \/ \E s \in Sockets : NextSocket(s) /\ WsConnect(s)
          \/ \E s \in Sockets : CloseEvent(s)
    \/ \E r \in MReqs : InitAfterPutFile(r)
    \/ \E r \in MReqs : InitAfterPutMime(r)
    \/ \E r \in MReqs : InitAfterPutTickets(r)
    \/ \E r \in MReqs : ClaimAfterPut(r)
    \/ \E r \in MReqs : AckAfterPut(r)
    \/ \E r \in MReqs : TakeResponse(r)
    \/ \E s \in Sockets : SocketBreak(s)
    \/ \E s \in Sockets : OperatorReceive(s)

SpecFanOut == Init /\ [][NextFanOut]_vars

\* ------------------------------------------- one session of many tickets
\* The form posted in the runs about the gate: one session of MaxGateUUID
\* tickets, more than the gate admits.
GateForms ==
    { [file |-> [present |-> TRUE, data |-> "d1", type |-> "text/plain"],
       count |-> MaxGateUUID] }

\* The ticket ids receivers name in those runs.
GateUUIDs == 1 .. MaxGateUUID

\* The dispenser serving that session, events delivered through the input
\* gate; the clock stands still.
NextGate ==
    \/ /\ InputGateOpen
       /\ \/ \E r \in MReqs, form \in GateForms : InitArrive(r, form)
          \/ \E r \in MReqs : InitAfterFormData(r)
          \/ \E r \in MReqs : InitAfterArrayBufferWithin(r, MaxGateUUID)
          \/ \E r \in MReqs, tid \in GateUUIDs : ClaimFetch(r, tid)
          \/ \E r \in MReqs, tid \in GateUUIDs : AckArrive(r, tid)
          \/ \E r \in MReqs : AckAfterJson(r)
    \/ \E r \in MReqs : InitAfterPutFile(r)
    \/ \E r \in MReqs : InitAfterPutMime(r)
    \/ \E r \in MReqs : InitAfterPutTickets(r)
    \/ \E r \in MReqs : ClaimAfterPut(r)
    \/ \E r \in MReqs : AckAfterPut(r)
    \/ \E r \in MReqs : TakeResponse(r)

SpecGate == Init /\ [][NextGate]_vars

\* ------------------------------------------------ the object is rebuilt
\* if (storedMime) this.mimeType = storedMime: an empty string is not loaded.
StoredMimeOrDefault(st) ==
    IF "mimeType" \in st.has /\ st.mimeType # "" THEN st.mimeType
    ELSE DefaultMime

\* The runtime evicts the idle object and constructs it again for the next
\* event: every field starts from its initialiser, then file, mimeType and
\* tickets are loaded from storage inside blockConcurrencyWhile. The
\* sockets of the old instance are closed with it.
Restart ==
    /\ \A r \in MReqs : mreq[r].pc \in {"idle", "done", "sent"}
    /\ file' = IF "file" \in storage.has THEN storage.file ELSE NoContent
    /\ mimeType' = StoredMimeOrDefault(storage)
    /\ tickets' = IF "tickets" \in storage.has THEN storage.tickets
                  ELSE << >>
    /\ currentDownloads' = 0
    /\ sellerSockets' = {}
    /\ sock' = [s \in Sockets |->
                  IF sock[s].state = "unused" THEN sock[s]
                  ELSE [state |-> "closed", outbox |-> << >>]]
    /\ UNCHANGED <<singleVars, seller, nextUUID, storage, mreq, now>>

\* The dispenser serving one large session through the input gate, rebuilt
\* from storage now and then.
NextRestart ==
    \/ NextGate
    \/ Restart

SpecRestart == Init /\ [][NextRestart]_vars

\* -------------------------------------- worker: GET /api/mass/claim
DeriveKeyShared(ticketId) == 1000

\* crypto.subtle.digest("SHA-256", encode(ticketId)) imported as the AES-GCM
\* key: one key per ticket id, apart from the keys generateKey produces.
DeriveKey(ticketId) == 1000 + ticketId

\* doRes.headers.get("X-Ticket-ID"): null when the header is absent
TicketHeader(doRes) ==
    IF "xTicketId" \in DOMAIN doRes THEN doRes.xTicketId ELSE NoId

PassThroughAlways(doRes) == TRUE

\* doRes.status !== 200 || !doRes.headers.get("X-Ticket-ID")
PassThrough(doRes) == doRes.status # 200 \/ TicketHeader(doRes) = NoId

\* What the worker answers for the dispenser's response doRes, iv being the
\* 12 random bytes it draws.
GatewayResponse(doRes, iv) ==
    IF PassThrough(doRes)
    THEN doRes
    ELSE [status |-> 200, kind |-> "encrypted",
          body |-> AesGcmEncrypt(DeriveKey(TicketHeader(doRes)), iv,
                                 doRes.body),
          contentType |-> MimeOrDefault(doRes.contentType),
          xIV |-> arrayBufferToBase64(iv)]

\* stub.fetch resolved: pass the response through or encrypt it and answer.
\* The awaits that follow (arrayBuffer, digest, importKey, encrypt) work on
\* the handler's locals only and are taken in the same step.
GatewayClaimReturn(r) ==
    /\ mreq[r].op = "claim" /\ mreq[r].pc = "done"
    /\ mreq' = [mreq EXCEPT ![r].pc = "sent",
                            ![r].resp = GatewayResponse(@, r)]
    /\ UNCHANGED <<singleVars, seller, nextUUID, file, mimeType, tickets,
                   currentDownloads, sellerSockets, storage, sock, now>>

\* The receiver takes the worker's answer to its claim.
TakeSent(r) ==
    /\ mreq[r].pc = "sent"
    /\ mreq' = [mreq EXCEPT ![r] = IdleMReq]
    /\ UNCHANGED <<singleVars, seller, nextUUID, file, mimeType, tickets,
                   currentDownloads, sellerSockets, storage, sock, now>>

\* The forms posted in the runs with the worker: one payload is an HTML
\* page, one has no type.
GatewayForms ==
    { [file |-> [present |-> TRUE, data |-> "d1", type |-> "text/html"],
       count |-> 2],
      [file |-> [present |-> TRUE, data |-> "d2", type |-> ""], count |-> 1],
      [file |-> [present |-> TRUE, data |-> "d2", type |-> ""], count |-> -1],
      [file |-> NoFile, count |-> 1] }

\* ---------------------------------------- mass receiver: handleMassClaim
\* res.headers.get("content-type"): the answers the dispenser builds from a
\* string body come with text/plain.
ContentTypeOf(res) ==
    IF "contentType" \in DOMAIN res THEN res.contentType
    ELSE "text/plain;charset=UTF-8"

\* contentType?.includes("text/html")
IncludesTextHtml(contentType) == contentType = "text/html"

\* What handleMassClaim does with the answer to its claim: "poll" is
\* setTimeout(() => handleMassClaim(tid), 5000), "error" the throw into the
\* catch, "decrypt" the path that decrypts and then acks.
ReceiverOn(res) ==
    IF IncludesTextHtml(ContentTypeOf(res)) THEN "poll"
    ELSE IF res.status # 200 THEN "error"
    ELSE IF "xIV" \notin DOMAIN res THEN "error"
    ELSE "decrypt"

\* The dispenser behind the worker: a claim's answer reaches the receiver
\* through GET /api/mass/claim only; init and ack answers are returned as
\* the dispenser gave them.
NextGateway ==
    \/ \E r \in MReqs, form \in GatewayForms : InitArrive(r, form)
    \/ \E r \in MReqs : InitAfterFormData(r)
    \/ \E r \in MReqs : InitAfterArrayBuffer(r)
    \/ \E r \in MReqs : InitAfterPutFile(r)
    \/ \E r \in MReqs : InitAfterPutMime(r)
    \/ \E r \in MReqs : InitAfterPutTickets(r)
    \/ \E r \in MReqs, tid \in UUIDs \cup {NoId, StrayId} : ClaimFetch(r, tid)
    \/ \E r \in MReqs : ClaimAfterPut(r)
    \/ \E r \in MReqs : GatewayClaimReturn(r)
    \/ \E r \in MReqs : TakeSent(r)
    \/ \E r \in MReqs, tid \in UUIDs \cup {NoId, StrayId} : AckArrive(r, tid)
    \/ \E r \in MReqs : AckAfterJson(r)
    \/ \E r \in MReqs : AckAfterPut(r)
    \/ \E r \in MReqs : mreq[r].op # "claim" /\ TakeResponse(r)
    \/ \E d \in {1, TimeoutMs} : Tick(d)

SpecGateway == Init /\ [][NextGateway]_vars

\* ------------------------------------- receivers that follow the client
\* The ids of earlier sessions: produced by randomUUID and no longer keys of
\* the ticket map.
PreviousIdsOf(last, map) == (1 .. last) \ DOMAIN map

\* The forms posted in the runs with receivers: a session with one ticket
\* more than the gate admits, and a session of one ticket.
ReceiverForms ==
    { [file |-> [present |-> TRUE, data |-> "d1", type |-> "text/plain"],
       count |-> MaxGateUUID - 1],
      [file |-> [present |-> TRUE, data |-> "d2", type |-> ""], count |-> 1] }

\* The operator starts a session while randomUUID results remain for its
\* tickets, one upload at a time.
OperatorInits(r, form) ==
    /\ \A q \in MReqs : mreq[q].op # "init"
    /\ nextUUID + form.count <= MaxGateUUID
    /\ InitArrive(r, form)

\* useEffect: a receiver opens its claim link; one tab is followed at a
\* time.
ReceiverClaims(r, tid) ==
    /\ \A q \in MReqs : mreq[q].op # "claim"
    /\ ClaimFetch(r, tid)

\* setTimeout(() => handleMassClaim(tid), 5000) fires: the waiting room was
\* shown and the same ticket is claimed again.
ReceiverPolls(r) ==
    /\ mreq[r].op = "claim" /\ mreq[r].pc = "sent"
    /\ ReceiverOn(mreq[r].resp) = "poll"
    /\ ClaimRun(r, mreq[r].ticketId)

\* Any other answer ends handleMassClaim: the file is decrypted or the
\* error is shown.
ReceiverStops(r) ==
    /\ mreq[r].op = "claim" /\ mreq[r].pc = "sent"
    /\ ReceiverOn(mreq[r].resp) # "poll"
    /\ TakeSent(r)

\* The file of ticket tid is on its way to the receiver.
InDelivery(tid) ==
    \E q \in MReqs :
        /\ mreq[q].op = "claim" /\ mreq[q].ticketId = tid
        /\ \/ mreq[q].pc = "claimPut"
           \/ mreq[q].pc \in {"done", "sent"}
              /\ mreq[q].resp.kind \in {"file", "encrypted"}

\* The receiver that was granted ticket tid has decrypted the file and
\* posts its ack; receivers of an earlier session do so too.
ReceiverAcks(r, tid) ==
    /\ \/ tid \in PreviousIdsOf(nextUUID, tickets)
       \/ /\ tid \in DOMAIN tickets
          /\ tickets[tid].status = "RESERVED"
          /\ ~InDelivery(tid)
    /\ AckArrive(r, tid)

\* What request r does next by itself: its handler resumes, the worker
\* returns the dispenser's answer, or the caller takes the answer and goes.
Resumes(r) ==
    \/ InitAfterPutFile(r)
    \/ InitAfterPutMime(r)
    \/ InitAfterPutTickets(r)
    \/ ClaimAfterPut(r)
    \/ AckAfterPut(r)
    \/ GatewayClaimReturn(r)
    \/ ReceiverStops(r)
    \/ mreq[r].op # "claim" /\ TakeResponse(r)

\* What the input gate lets in for request r.
Delivers(r) ==
    /\ InputGateOpen
    /\ \/ InitAfterFormData(r)
       \/ InitAfterArrayBufferWithin(r, MaxGateUUID)
       \/ AckAfterJson(r)

NextReceivers ==
    \/ /\ InputGateOpen
       /\ \/ \E r \in MReqs, form \in ReceiverForms : OperatorInits(r, form)
          \/ \E r \in MReqs, tid \in GateUUIDs : ReceiverClaims(r, tid)
          \/ \E r \in MReqs : ReceiverPolls(r)
          \/ \E r \in MReqs, tid \in GateUUIDs : ReceiverAcks(r, tid)
    \/ \E r \in MReqs : Delivers(r)
    \/ \E r \in MReqs : Resumes(r)

\* Handlers run on and answers are taken (weak fairness per request); a
\* scheduled poll and the ack of a granted receiver are delivered once the
\* input gate lets them in (strong fairness, the gate opens and closes).
FairReceivers ==
    /\ \A r \in MReqs : WF_vars(Resumes(r))
    /\ \A r \in MReqs : SF_vars(Delivers(r))
    /\ \A r \in MReqs : SF_vars(InputGateOpen /\ ReceiverPolls(r))
    /\ \A tid \in GateUUIDs :
          SF_vars(InputGateOpen /\ \E r \in MReqs : ReceiverAcks(r, tid))

SpecReceivers == Init /\ [][NextReceivers]_vars /\ FairReceivers

\* ------------------------------------------- the operator page at work
\* handleMassInit: the form is on screen while no socket of the page is
\* open; one upload at a time, while randomUUID results and a socket remain.
SellerInits(r, form) ==
    /\ \A s \in Sockets : sock[s].state # "open"
    /\ \E s \in Sockets : sock[s].state = "unused"
    /\ \A q \in MReqs : mreq[q].op # "init"
    /\ nextUUID + form.count <= MaxGateUUID
    /\ InitArrive(r, form)

\* res.ok: connectSellerWs() opens the socket and /ws accepts it.
SellerConnects(r, s) ==
    /\ mreq[r].op = "init" /\ mreq[r].pc = "done"
    /\ mreq[r].resp.kind = "initialized"
    /\ NextSocket(s)
    /\ WsAccept(s)
    /\ mreq' = [mreq EXCEPT ![r] = IdleMReq]
    /\ UNCHANGED <<singleVars, seller, nextUUID, file, mimeType, tickets,
                   currentDownloads, storage, now>>

\* A receiver scans the QR code on screen and opens its claim link.
ReceiverScans(r) ==
    /\ seller.currentTicketId # NoId
    /\ \A q \in MReqs : ~(mreq[q].op = "claim"
                            /\ mreq[q].ticketId = seller.currentTicketId)
    /\ ClaimFetch(r, seller.currentTicketId)

\* What request r does next by itself at the dispenser.
SellerResumes(r) ==
    \/ InitAfterPutFile(r)
    \/ InitAfterPutMime(r)
    \/ InitAfterPutTickets(r)
    \/ ClaimAfterPut(r)
    \/ AckAfterPut(r)
    \/ mreq[r].op # "init" /\ TakeResponse(r)

NextSeller ==
    \/ /\ InputGateOpen
       /\ \/ \E r \in MReqs, form \in ReceiverForms : SellerInits(r, form)
          \/ \E r \in MReqs, s \in Sockets : SellerConnects(r, s)
          \/ \E r \in MReqs : ReceiverScans(r)
          \/ \E r \in MReqs, tid \in GateUUIDs : ReceiverAcks(r, tid)
          \/ \E s \in Sockets : CloseEvent(s)
    \/ \E r \in MReqs : Delivers(r)
    \/ \E r \in MReqs : SellerResumes(r)
    \/ \E s \in Sockets : SocketBreak(s)
    \/ \E s \in Sockets : SellerOnMessage(s)

\* Handlers run on and messages on an open socket reach the page (weak
\* fairness); scans of the code on screen and acks of granted receivers are
\* delivered once the input gate lets them in (strong fairness). Nothing
\* obliges a socket to break.
FairSeller ==
    /\ \A r \in MReqs : WF_vars(SellerResumes(r))
    /\ \A r \in MReqs : SF_vars(Delivers(r))
    /\ \A s \in Sockets : WF_vars(SellerOnMessage(s))
    /\ SF_vars(InputGateOpen /\ \E r \in MReqs, s \in Sockets :
                                    SellerConnects(r, s))
    /\ SF_vars(InputGateOpen /\ \E r \in MReqs : ReceiverScans(r))
    /\ \A tid \in GateUUIDs :
          SF_vars(InputGateOpen /\ \E r \in MReqs : ReceiverAcks(r, tid))

SpecSeller == Init /\ [][NextSeller]_vars /\ FairSeller

\* --------------------------------- the receiver page from claim to ack
\* handleMassClaim: crypto.subtle.digest("SHA-256", encode(tid)) imported as
\* the AES-GCM key, tid being the ticket of the claim link.
ReceiverDeriveKey(tid) == 1000 + tid

\* handleMassClaim: crypto.subtle.decrypt with the key of tid and the bytes
\* of the X-IV header.
ReceiverDecrypts(tid, res) ==
    AesGcmDecrypt(ReceiverDeriveKey(tid), base64ToArrayBuffer(res.xIV),
                  res.body)

\* The bytes of an encrypted answer are altered on their way to the page.
Garbled(body) == [body EXCEPT !.form = "garbled"]

\* res.arrayBuffer(): the body as it reaches the page, altered or not.
TransitGarbles(r) ==
    /\ mreq[r].op = "claim" /\ mreq[r].pc = "sent"
    /\ mreq[r].resp.kind = "encrypted"
    /\ mreq[r].resp.body.form = "aesgcm"
    /\ mreq' = [mreq EXCEPT ![r].resp.body = Garbled(@)]
    /\ UNCHANGED <<singleVars, seller, nextUUID, file, mimeType, tickets,
                   currentDownloads, sellerSockets, storage, sock, now>>

DecryptNeverRejects(plain) == FALSE

\* crypto.subtle.decrypt rejects (the authentication of AES-GCM fails) and
\* handleMassClaim goes to its catch.
DecryptRejects(plain) == plain = NoContent

\* handleMassClaim after the fetch, when it is to go on to the ack: the
\* answer is neither the waiting room nor an error, and it decrypts.
ReceiverDecrypted(r) ==
    /\ ReceiverOn(mreq[r].resp) = "decrypt"
    /\ ~DecryptRejects(ReceiverDecrypts(mreq[r].ticketId, mreq[r].resp))

\* handleMassClaim ends in its catch: !res.ok, no X-IV, or decrypt rejects.
ReceiverGivesUp(r) ==
    /\ mreq[r].op = "claim" /\ mreq[r].pc = "sent"
    /\ ReceiverOn(mreq[r].resp) # "poll"
    /\ ~ReceiverDecrypted(r)
    /\ TakeSent(r)

\* The file is decrypted and offered: fetch(/api/mass/ack) with the tid of
\* the claim, and /ack starts on it.
ReceiverPostsAck(r) ==
    /\ mreq[r].op = "claim" /\ mreq[r].pc = "sent"
    /\ ReceiverDecrypted(r)
    /\ mreq' = [mreq EXCEPT ![r] = [IdleMReq EXCEPT
                                       !.op = "ack", !.pc = "json",
                                       !.ticketId = mreq[r].ticketId]]
    /\ UNCHANGED <<singleVars, seller, nextUUID, file, mimeType, tickets,
                   currentDownloads, sellerSockets, storage, sock, now>>

\* What request r does next by itself, the page included.
ClientResumes(r) ==
    \/ InitAfterPutFile(r)
    \/ InitAfterPutMime(r)
    \/ InitAfterPutTickets(r)
    \/ ClaimAfterPut(r)
    \/ AckAfterPut(r)
    \/ GatewayClaimReturn(r)
    \/ ReceiverGivesUp(r)
    \/ mreq[r].op # "claim" /\ TakeResponse(r)

\* Receivers open claim links, any number of tabs at a time; acks are those
\* the pages post.
NextClient ==
    \/ /\ InputGateOpen
       /\ \/ \E r \in MReqs, form \in ReceiverForms : OperatorInits(r, form)
          \/ \E r \in MReqs, tid \in GateUUIDs : ClaimFetch(r, tid)
          \/ \E r \in MReqs : ReceiverPolls(r)
          \/ \E r \in MReqs : ReceiverPostsAck(r)
    \/ \E r \in MReqs : Delivers(r)
    \/ \E r \in MReqs : ClientResumes(r)
    \/ \E r \in MReqs : TransitGarbles(r)

SpecClient == Init /\ [][NextClient]_vars
\* ===================================================================
\* Claims
\* ===================================================================
Delivered(t) ==
    \E q \in SReqs : /\ sreq[q].op = "claim"
                     /\ sreq[q].resp.kind = "bundle"
                     /\ sreq[q].ticket_id = t

Quiescent == \A r \in MReqs : mreq[r].pc \in {"idle", "done"}

ReservedIds == {t \in DOMAIN tickets : tickets[t].status = "RESERVED"}

\* Request r runs the /claim handler for ticket t in this step.
ClaimStepOn(r, t) ==
    /\ mreq[r].pc = "idle"
    /\ mreq'[r].op = "claim"
    /\ mreq'[r].ticketId = t

\* C1: single-ticket mode, concurrent claims: whatever the interleaving of
\* the claim requests for one ticket id, at most one of them returns a
\* successful HandoffBundle.
C1_AtMostOneBundle ==
    \A t \in UUIDs :
        Cardinality({r \in SReqs : /\ sreq[r].op = "claim"
                                   /\ sreq[r].resp.kind = "bundle"
                                   /\ sreq[r].ticket_id = t}) <= 1

\* C2: single-ticket mode, sequential claims: once a claim for ticket T has
\* returned a bundle, T is not in the ticket store, and every claim that
\* looks T up from then on (with any public key) is answered 404.
C2_BurnedStaysBurned ==
    [][ /\ \A t \in UUIDs : Delivered(t)' => ~StoreHas(TICKET_STORE', t)
        /\ \A r \in SReqs :
             ( /\ sreq[r].op = "claim" /\ sreq[r].pc = "json"
               /\ sreq'[r].pc # "json"
               /\ sreq[r].ticket_id # NoId /\ sreq[r].public_key # NoKey
               /\ Delivered(sreq[r].ticket_id) )
             => sreq'[r].resp.status = 404 ]_vars

\* C2 witness: a ticket was delivered to one claim and a second claim for it,
\* made with a different key, was answered 404.
C2_Witness ==
    \E q, r \in SReqs :
        /\ sreq[q].op = "claim" /\ sreq[q].resp.kind = "bundle"
        /\ sreq[r].op = "claim" /\ sreq[r].resp.status = 404
        /\ sreq[r].ticket_id = sreq[q].ticket_id
        /\ sreq[r].public_key # sreq[q].public_key
        /\ ~StoreHas(TICKET_STORE, sreq[q].ticket_id)

\* C3: the relaying server never holds an unencrypted copy of the sender's
\* file: no entry of the ticket store contains plaintext.
C3_NoPlaintextInStore ==
    \A t \in DOMAIN TICKET_STORE : TICKET_STORE[t].content.form # "plain"

\* C4: mass mode, concurrency cap: in every reachable state, whatever the
\* interleaving of the handlers, 0 <= currentDownloads <= the cap.
C4_GateWithinCap ==
    /\ currentDownloads >= 0
    /\ currentDownloads <= maxConcurrentDownloads

\* C4 witness: the gate is full, one claim is suspended at its await holding
\* a slot, and a second claim made meanwhile was sent to the waiting room.
C4_Witness ==
    /\ currentDownloads = maxConcurrentDownloads
    /\ \E r, q \in MReqs :
          /\ mreq[r].op = "claim" /\ mreq[r].pc = "claimPut"
          /\ mreq[q].op = "claim" /\ mreq[q].resp.kind = "waiting"

\* C5: mass mode, counter invariant: after any sequence of init, claim and
\* ack operations, currentDownloads equals the number of RESERVED tickets.
C5_CounterIsReservedCount ==
    Quiescent => currentDownloads = Cardinality(ReservedIds)

\* C6: terminal state: once a ticket is CLAIMED, no claim and no ack changes
\* its status; it stays CLAIMED as long as the session has it.
C6_ClaimedIsTerminal ==
    [][ \A t \in DOMAIN tickets :
           (tickets[t].status = "CLAIMED" /\ t \in DOMAIN tickets')
           => tickets'[t].status = "CLAIMED" ]_vars

\* C6 witness: a claim on a CLAIMED ticket was refused (410) and an ack on a
\* CLAIMED ticket has run, and the ticket is still CLAIMED.
C6_Witness ==
    \E r, q \in MReqs :
        /\ mreq[r].op = "claim" /\ mreq[r].resp.kind = "used"
        /\ mreq[q].op = "ack" /\ mreq[q].resp.kind = "burned"
        /\ mreq[q].ticketId = mreq[r].ticketId
        /\ mreq[r].ticketId \in DOMAIN tickets
        /\ tickets[mreq[r].ticketId].status = "CLAIMED"

\* C7: ticket lifecycle edges: every status change is AVAILABLE->RESERVED,
\* RESERVED->CLAIMED or RESERVED->AVAILABLE; none goes AVAILABLE->CLAIMED.
C7_LifecycleEdges ==
    [][ \A t \in DOMAIN tickets \cap DOMAIN tickets' :
           tickets'[t].status # tickets[t].status
           => <<tickets[t].status, tickets'[t].status>> \in
                 { <<"AVAILABLE", "RESERVED">>, <<"RESERVED", "CLAIMED">>,
                   <<"RESERVED", "AVAILABLE">> } ]_vars

\* C8: an ack on a ticket that is AVAILABLE (never reserved) is answered
\* Unknown and changes nothing: tickets, currentDownloads and the operator
\* sockets stay as they are.
C8_AckUnreservedIsUnknown ==
    [][ \A r \in MReqs :
           ( /\ mreq[r].op = "ack" /\ mreq[r].pc = "json"
             /\ mreq'[r].pc # "json"
             /\ mreq[r].ticketId \in DOMAIN tickets
             /\ tickets[mreq[r].ticketId].status = "AVAILABLE" )
           => /\ mreq'[r].resp.kind = "unknown"
              /\ tickets' = tickets
              /\ currentDownloads' = currentDownloads
              /\ sock' = sock ]_vars

\* C9: timeout recovery: a claim on a RESERVED ticket whose reservation is
\* older than 5 minutes is granted again (RESERVED, reservedAt = now)
\* whenever fewer than the cap of other tickets hold a reservation.
C9_ExpiredIsRegranted ==
    [][ \A r \in MReqs : \A t \in DOMAIN tickets :
           ( /\ ClaimStepOn(r, t)
             /\ tickets[t].status = "RESERVED"
             /\ Expired(tickets[t], now)
             /\ Cardinality(ReservedIds \ {t}) < maxConcurrentDownloads )
           => /\ mreq'[r].pc = "claimPut"
              /\ tickets'[t] = Ticket(t, "RESERVED", now) ]_vars

\* C10: an expired reservation releases its download slot: the claim that
\* finds a RESERVED ticket expired frees the slot that reservation held, so
\* the counter ends one lower, or unchanged if the ticket is granted again.
C10_ExpiryFreesSlot ==
    [][ \A r \in MReqs : \A t \in DOMAIN tickets :
           ( /\ ClaimStepOn(r, t)
             /\ tickets[t].status = "RESERVED"
             /\ Expired(tickets[t], now) )
           => currentDownloads' =
                 currentDownloads - 1 +
                 (IF tickets'[t].status = "RESERVED" THEN 1 ELSE 0) ]_vars

\* ------------------------------------------------------------ C11 .. C16
\* The ids of earlier sessions: generated, and gone from the ticket map.
PreviousIds == (1 .. nextUUID) \ DOMAIN tickets

\* Request r runs the synchronous part of /init that replaces the session.
InitStepBy(r) ==
    /\ mreq[r].op = "init"
    /\ mreq[r].pc = "arrayBuffer"
    /\ mreq'[r].pc = "putFile"

\* Request r runs the lookup of /ack for ticket id t in this step.
AckStepOn(r, t) ==
    /\ mreq[r].op = "ack"
    /\ mreq[r].pc = "json"
    /\ mreq'[r].pc # "json"
    /\ mreq[r].ticketId = t

\* C11: re-init discards the previous session: right after /init replaces
\* the session, the ticket map holds exactly the newly generated ids, all
\* AVAILABLE; the batch listing is exactly those ids when they fit the
\* limit; no id of an earlier session ever returns to the map; a claim
\* naming such an id is answered 403 Invalid Ticket and an ack naming one
\* 400 Unknown, both without any change of state.
C11_ReinitDiscardsState ==
    [][ /\ \A r \in MReqs : InitStepBy(r) =>
              /\ DOMAIN tickets' = (nextUUID + 1) .. nextUUID'
              /\ \A t \in DOMAIN tickets' :
                     tickets'[t] = Ticket(t, "AVAILABLE", NoTime)
              /\ Cardinality(DOMAIN tickets') <= BatchLimit =>
                     BatchOf(tickets').tickets = InOrder(DOMAIN tickets')
        /\ DOMAIN tickets' \cap PreviousIds = {}
        /\ \A r \in MReqs : \A t \in PreviousIds :
              /\ ClaimStepOn(r, t) =>
                     /\ mreq'[r].pc = "done"
                     /\ mreq'[r].resp = [status |-> 403, kind |-> "invalid"]
                     /\ UNCHANGED <<tickets, currentDownloads, storage>>
              /\ AckStepOn(r, t) =>
                     /\ mreq'[r].pc = "done"
                     /\ mreq'[r].resp = [status |-> 400, kind |-> "unknown"]
                     /\ UNCHANGED <<tickets, currentDownloads, storage>>
      ]_vars

\* A claim and an ack naming ids of a replaced session have been refused
\* while a newer session is live.
C11_Witness ==
    /\ DOMAIN tickets # {}
    /\ \E r, q \in MReqs :
          /\ mreq[r].op = "claim" /\ mreq[r].resp.kind = "invalid"
          /\ mreq[r].ticketId \in PreviousIds
          /\ mreq[q].op = "ack" /\ mreq[q].resp.kind = "unknown"
          /\ mreq[q].ticketId \in PreviousIds

\* C12: an ack on a RESERVED ticket answers Burned, leaves the ticket
\* CLAIMED and lowers currentDownloads by exactly one.
C12_AckFreesOneSlot ==
    [][ \A r \in MReqs :
           ( /\ mreq[r].op = "ack"
             /\ mreq[r].pc = "ackPut"
             /\ mreq[r].was = "RESERVED"
             /\ mreq'[r].pc = "done" )
           => /\ mreq'[r].resp = [status |-> 200, kind |-> "burned"]
              /\ currentDownloads' = currentDownloads - 1
              /\ mreq[r].ticketId \in DOMAIN tickets' =>
                     tickets'[mreq[r].ticketId].status = "CLAIMED" ]_vars

\* C13: a claim naming an unknown id is answered 403 Invalid Ticket and a
\* claim naming a CLAIMED ticket 410 Ticket already used, whatever the
\* download counter is (the gate being full included); the answer carries no
\* payload, and tickets, counter, payload and storage are left as they were.
C13_TerminalReserveErrors ==
    [][ \A r \in MReqs : \A t \in UUIDs \cup {NoId, StrayId} :
           ClaimStepOn(r, t) =>
              /\ t \notin DOMAIN tickets =>
                     /\ mreq'[r].pc = "done"
                     /\ mreq'[r].resp = [status |-> 403, kind |-> "invalid"]
                     /\ UNCHANGED <<tickets, currentDownloads, storage,
                                    file, mimeType>>
              /\ (t \in DOMAIN tickets /\ tickets[t].status = "CLAIMED") =>
                     /\ mreq'[r].pc = "done"
                     /\ mreq'[r].resp = [status |-> 410, kind |-> "used"]
                     /\ UNCHANGED <<tickets, currentDownloads, storage,
                                    file, mimeType>> ]_vars

\* The only ticket of the session is CLAIMED, so no grant can have raised
\* the counter since its claim was refused: 410 was given at a full gate.
C13_Witness ==
    /\ GateFull(currentDownloads)
    /\ \E r \in MReqs :
          /\ mreq[r].op = "claim" /\ mreq[r].resp.kind = "used"
          /\ DOMAIN tickets = {mreq[r].ticketId}
          /\ tickets[mreq[r].ticketId].status = "CLAIMED"

\* C14: a claim on an AVAILABLE ticket while the gate is full is answered
\* with the waiting room and changes nothing: every ticket keeps its status
\* and reservedAt, and the download counter and storage stay as they were.
C14_QueueFullChangesNothing ==
    [][ \A r \in MReqs : \A t \in DOMAIN tickets :
           ( /\ ClaimStepOn(r, t)
             /\ tickets[t].status = "AVAILABLE"
             /\ currentDownloads = maxConcurrentDownloads )
           => /\ mreq'[r].pc = "done"
              /\ mreq'[r].resp.kind = "waiting"
              /\ UNCHANGED <<tickets, currentDownloads, storage>> ]_vars

\* No time has passed, so nothing has expired: the ticket that was sent to
\* the waiting room has been AVAILABLE all along, next to a live reservation.
C14_Witness ==
    /\ now = StartNow
    /\ ReservedIds # {}
    /\ \E r \in MReqs :
          /\ mreq[r].op = "claim" /\ mreq[r].resp.kind = "waiting"
          /\ mreq[r].ticketId \in DOMAIN tickets
          /\ tickets[mreq[r].ticketId].status = "AVAILABLE"

\* C15: a claim on a RESERVED ticket that has not expired does not raise
\* currentDownloads again.
C15_NoSecondIncrement ==
    [][ \A r \in MReqs : \A t \in DOMAIN tickets :
           ( /\ ClaimStepOn(r, t)
             /\ tickets[t].status = "RESERVED"
             /\ ~Expired(tickets[t], now) )
           => currentDownloads' = currentDownloads ]_vars

\* C16: a claim on a RESERVED ticket that has not expired is granted again,
\* in every state, the gate being full included.
C16_ReservedIsGrantedAgain ==
    [][ \A r \in MReqs : \A t \in DOMAIN tickets :
           ( /\ ClaimStepOn(r, t)
             /\ tickets[t].status = "RESERVED"
             /\ ~Expired(tickets[t], now) )
           => /\ mreq'[r].pc = "claimPut"
              /\ tickets'[t].status = "RESERVED" ]_vars

\* ------------------------------------------------------------------ C17
\* The worker's answers to mass claims that are in the receiver's hands.
SentResponses == {mreq[r].resp : r \in {q \in MReqs : mreq[q].pc = "sent"}}

\* C17: the worker never lets the session payload leave unencrypted: an
\* answer to a mass claim that carries a body carries the payload encrypted
\* with AES-GCM under the key derived from the claimed ticket id, with the
\* IV of that encryption in X-IV; waiting-room and error answers carry
\* neither a body nor an IV.
C17_PayloadLeavesEncrypted ==
    \A r \in MReqs : mreq[r].pc = "sent" =>
        LET resp == mreq[r].resp
        IN IF "body" \in DOMAIN resp
           THEN /\ resp.kind = "encrypted"
                /\ resp.body.form = "aesgcm"
                /\ resp.body.key = DeriveKey(mreq[r].ticketId)
                /\ "xIV" \in DOMAIN resp
                /\ base64ToArrayBuffer(resp.xIV) = resp.body.iv
           ELSE /\ resp.kind \in {"waiting", "invalid", "used"}
                /\ "xIV" \notin DOMAIN resp

\* The worker has answered one claim with the encrypted payload and another
\* with the waiting room.
C17_Witness ==
    \E r, q \in MReqs :
        /\ mreq[r].pc = "sent" /\ mreq[r].resp.kind = "encrypted"
        /\ mreq[r].resp.body.data \in {"d1", "d2"}
        /\ mreq[q].pc = "sent" /\ mreq[q].resp.kind = "waiting"

\* ------------------------------------------------------------ C18, C19
\* Request r, a single-ticket claim, takes a step that does not answer with
\* a bundle.
ClaimStepWithoutBundle(r) ==
    /\ sreq'[r] # sreq[r]
    /\ sreq'[r].op = "claim"
    /\ sreq'[r].resp.kind # "bundle"

\* C18: a single-ticket claim that does not return a bundle (missing
\* parameters, unknown ticket, key-import error or cipher error) makes no
\* change to the ticket store at any of its steps; and a ticket for which a
\* claim failed in the cryptography is still in the store, so still
\* claimable, until some claim returns its bundle.
C18_FailedClaimKeepsStore ==
    /\ [][ \A r \in SReqs :
              ClaimStepWithoutBundle(r) => TICKET_STORE' = TICKET_STORE ]_vars
    /\ [] ( \A r \in SReqs :
               ( /\ sreq[r].op = "claim"
                 /\ sreq[r].resp.status = 500
                 /\ ~Delivered(sreq[r].ticket_id) )
               => StoreHas(TICKET_STORE, sreq[r].ticket_id) )

\* For one ticket, a claim that arrived first failed at the key wrap, after
\* the file had been encrypted, and another claim has returned the bundle.
C18_Witness ==
    \E q, r \in SReqs :
        /\ q < r
        /\ sreq[q].op = "claim" /\ sreq[q].resp.status = 500
        /\ sreq[q].public_key = "weak"
        /\ sreq[r].op = "claim" /\ sreq[r].resp.kind = "bundle"
        /\ sreq[q].ticket_id = sreq[r].ticket_id

\* The mint request that answered with ticket id t.
MintOf(t) ==
    CHOOSE m \in SReqs : sreq[m].resp.kind = "minted" /\ sreq[m].ticket_id = t

\* C19: single-ticket round trip: the bundle of a successful claim, opened
\* by the receiver with the private key of the pair whose public key the
\* claim posted, gives exactly the bytes and the MIME type that were minted
\* under the claimed ticket id; and the private key of no other pair unwraps
\* the bundle's key.
C19_SingleRoundTrip ==
    \A r \in SReqs :
        (sreq[r].op = "claim" /\ sreq[r].resp.kind = "bundle") =>
            LET minted == sreq[MintOf(sreq[r].ticket_id)].file
                bundle == sreq[r].resp
            IN /\ ReceiverOpens(GenerateKeyPair(sreq[r].public_key), bundle)
                     = [content |-> ArrayBufferOf(minted),
                        mimeType |-> MimeOrDefault(minted.type)]
               /\ \A k \in PublicKeys \ {sreq[r].public_key} :
                     RsaOaepDecrypt(GenerateKeyPair(k).privateKey,
                                    base64ToArrayBuffer(bundle.wrapped_key))
                       = DecryptFailed

\* A file uploaded without a type has been claimed under the second public
\* key and opens to its bytes with the default MIME type.
C19_Witness ==
    \E r \in SReqs :
        /\ sreq[r].op = "claim" /\ sreq[r].resp.kind = "bundle"
        /\ sreq[r].public_key = "jwkB"
        /\ ReceiverOpens(GenerateKeyPair("jwkB"), sreq[r].resp)
              = [content |-> [form |-> "plain", data |-> "d2", key |-> 0,
                              iv |-> 0],
                 mimeType |-> DefaultMime]

\* ------------------------------------------------------------------ C20
\* The ids of seq are strictly increasing: insertion order, no duplicates.
InInsertionOrder(seq) ==
    \A i, j \in 1 .. Len(seq) : i < j => seq[i] < seq[j]

\* C20: operator connect: nothing is sent to a socket before /ws has set it
\* up, and the step that sets it up leaves exactly one message on it, a
\* batch, so every claimed event on that socket comes after the batch; the
\* batch lists at most BatchLimit ticket ids, each of a ticket that is
\* AVAILABLE at that moment, without duplicates and in insertion order.
C20_BatchComesFirst ==
    /\ [] ( \A s \in Sockets : sock[s].state = "unused" =>
               sock[s].outbox = << >> /\ s \notin sellerSockets )
    /\ [][ \A s \in Sockets :
              (sock[s].state = "unused" /\ sock'[s] # sock[s]) =>
                  /\ sock'[s].state = "open"
                  /\ Len(sock'[s].outbox) = 1
                  /\ LET batch == sock'[s].outbox[1]
                     IN /\ batch.type = "batch"
                        /\ Len(batch.tickets) <= BatchLimit
                        /\ InInsertionOrder(batch.tickets)
                        /\ \A i \in 1 .. Len(batch.tickets) :
                              /\ batch.tickets[i] \in DOMAIN tickets
                              /\ tickets[batch.tickets[i]].status
                                    = "AVAILABLE" ]_vars

\* With three tickets AVAILABLE the operator connected and was sent the
\* first two; a claimed event waits behind that batch on the socket.
C20_Witness ==
    \E s \in Sockets :
        /\ Len(sock[s].outbox) = 2
        /\ sock[s].outbox[1].type = "batch"
        /\ sock[s].outbox[1].tickets = <<1, 2>>
        /\ sock[s].outbox[2].type = "claimed"
        /\ 3 \in DOMAIN tickets
        /\ tickets[3].status = "AVAILABLE"

\* ------------------------------------------------------------ C21, C22
\* Request r, an ack, resumes after its storage put: it frees the slot,
\* broadcasts and answers.
AckBurnStep(r) ==
    /\ mreq[r].op = "ack"
    /\ mreq[r].pc = "ackPut"
    /\ mreq'[r].pc = "done"

\* Socket s is in the broadcast set and its peer is there.
Connected(s) == s \in sellerSockets /\ sock[s].state = "open"

\* A message is put on socket s in this step.
SentTo(s) == Len(sock'[s].outbox) > Len(sock[s].outbox)

\* C21: an ack that answers Burned for ticket T puts exactly one
\* {type: claimed, ticketId: T} message on every operator socket connected
\* at that moment and none on any other socket, T being CLAIMED then; and a
\* claimed message is put on a socket by such an ack only.
C21_AckBroadcast ==
    [][ /\ \A r \in MReqs : AckBurnStep(r) =>
              /\ mreq'[r].resp = [status |-> 200, kind |-> "burned"]
              /\ mreq[r].ticketId \in DOMAIN tickets
              /\ tickets[mreq[r].ticketId].status = "CLAIMED"
              /\ \A s \in Sockets :
                    sock'[s].outbox =
                        IF Connected(s)
                        THEN Append(sock[s].outbox,
                                    ClaimedMsg(mreq[r].ticketId))
                        ELSE sock[s].outbox
        /\ \A s \in Sockets :
              ( /\ SentTo(s)
                /\ sock'[s].outbox[Len(sock'[s].outbox)].type = "claimed" )
              => \E r \in MReqs :
                    /\ AckBurnStep(r)
                    /\ sock'[s].outbox[Len(sock'[s].outbox)].ticketId
                          = mreq[r].ticketId ]_vars

\* Two operators are connected and the claimed event of a Burned ack is
\* the latest message on both sockets.
C21_Witness ==
    \E r \in MReqs :
        /\ mreq[r].op = "ack" /\ mreq[r].resp.kind = "burned"
        /\ Cardinality(Sockets) >= 2
        /\ \A s \in Sockets :
              /\ Connected(s)
              /\ sock[s].outbox # << >>
              /\ sock[s].outbox[Len(sock[s].outbox)]
                    = ClaimedMsg(mreq[r].ticketId)

\* C22: best-effort fan-out: the close event of a socket takes it out of
\* the broadcast set; a broadcast takes out every socket whose send throws
\* and still puts the message on every other socket of the set; a socket
\* that has left the set gets no message any more and never re-enters it.
C22_BestEffortFanOut ==
    [][ /\ \A s \in Sockets :
              (sock[s].state = "broken" /\ sock'[s].state = "closed")
              => s \notin sellerSockets'
        /\ \A r \in MReqs : AckBurnStep(r) =>
              \A s \in sellerSockets :
                 IF SendThrows(s)
                 THEN s \notin sellerSockets'
                 ELSE /\ s \in sellerSockets'
                      /\ sock'[s].outbox =
                            Append(sock[s].outbox,
                                   ClaimedMsg(mreq[r].ticketId))
        /\ \A s \in Sockets :
              (s \notin sellerSockets /\ sock[s].state # "unused")
              => /\ ~SentTo(s)
                 /\ s \notin sellerSockets' ]_vars

\* The first socket broke and a broadcast found it out (it is out of the
\* set before its close event); the second socket holds the claimed event.
C22_Witness ==
    \E s, q \in Sockets :
        /\ s < q
        /\ sock[s].state = "broken" /\ s \notin sellerSockets
        /\ Connected(q)
        /\ sock[q].outbox # << >>
        /\ sock[q].outbox[Len(sock[q].outbox)].type = "claimed"

\* ------------------------------------------------------------------ C23
\* C23: /init creates exactly as many tickets, with distinct ids, as the
\* count it was asked for, and the ticket_count it reports is the number of
\* tickets the session holds, for zero and negative counts as well.
C23_TicketCount ==
    [][ \A r \in MReqs :
           /\ InitStepBy(r) =>
                 Cardinality(DOMAIN tickets') = mreq[r].count
           /\ ( /\ mreq[r].op = "init"
                /\ mreq[r].pc = "putTickets"
                /\ mreq'[r].pc = "done" )
              => mreq'[r].resp.ticket_count = mreq[r].count ]_vars

\* ------------------------------------------------------------------ C24
\* C24: the mass receiver schedules another claim exactly when the answer
\* is the waiting room; on Invalid Ticket and on Ticket already used it
\* stops with an error, and on the encrypted file it goes on to decrypt and
\* does not poll.
C24_PollsOnlyOnWaitingRoom ==
    \A r \in MReqs : mreq[r].pc = "sent" =>
        LET res == mreq[r].resp
        IN /\ (ReceiverOn(res) = "poll") <=> (res.kind = "waiting")
           /\ res.kind \in {"invalid", "used"} => ReceiverOn(res) = "error"
           /\ res.kind = "encrypted" => ReceiverOn(res) = "decrypt"

\* ------------------------------------------------------------ C25 .. C30
\* Request r was granted its ticket in this step.
GrantedTo(r) == mreq'[r].pc = "claimPut"

\* C25: a reserve on an AVAILABLE ticket is granted only if the download
\* counter was below maxConcurrentDownloads before the call; the granted
\* ticket is then RESERVED with reserved_at = now, the counter is exactly one
\* higher, and every other ticket is unchanged.
C25_GrantStep ==
    [][ \A r \in MReqs : \A t \in DOMAIN tickets :
           ( /\ ClaimStepOn(r, t)
             /\ tickets[t].status = "AVAILABLE"
             /\ GrantedTo(r) ) =>
               /\ currentDownloads < maxConcurrentDownloads
               /\ currentDownloads' = currentDownloads + 1
               /\ DOMAIN tickets' = DOMAIN tickets
               /\ tickets'[t].id = t
               /\ tickets'[t].status = "RESERVED"
               /\ tickets'[t].reservedAt = now
               /\ \A u \in DOMAIN tickets \ {t} : tickets'[u] = tickets[u]
      ]_vars

\* Some time into the first session, the one grant so far has just been
\* made: its ticket is RESERVED as of now, the counter went from 0 to 1 and
\* the other ticket of the session is still AVAILABLE.
C25_Witness ==
    \E r \in MReqs : \E t \in DOMAIN tickets :
        /\ mreq[r].op = "claim" /\ mreq[r].pc = "claimPut"
        /\ mreq[r].ticketId = t
        /\ PreviousIds = {}
        /\ now > StartNow
        /\ currentDownloads = 1
        /\ tickets[t].status = "RESERVED"
        /\ tickets[t].reservedAt = now
        /\ DOMAIN tickets # {t}
        /\ \A u \in DOMAIN tickets \ {t} : tickets[u].status = "AVAILABLE"

\* C26: acknowledging the same ticket twice frees at most one slot: an ack
\* that finds its ticket already CLAIMED leaves the download counter as it
\* is and sends no claimed event.
C26_SecondAckIsInert ==
    [][ \A r \in MReqs :
           (AckBurnStep(r) /\ mreq[r].was = "CLAIMED") =>
               /\ currentDownloads' = currentDownloads
               /\ \A s \in Sockets : ~SentTo(s) ]_vars

\* C27: in every reachable state the number of RESERVED tickets is at most
\* maxConcurrentDownloads.
C27_ReservedWithinCap ==
    Cardinality(ReservedIds) <= maxConcurrentDownloads

\* C28: immediately after /init replaces the session the download counter
\* is 0, so no reservation of an earlier session counts against the gate of
\* the new one.
C28_ReinitClearsGate ==
    [][ \A r \in MReqs : InitStepBy(r) => currentDownloads' = 0 ]_vars

\* C29: a RESERVED ticket becomes AVAILABLE only in a /claim step on that
\* same ticket taken when now - reserved_at is strictly greater than five
\* minutes; a /claim on it at five minutes or less leaves it RESERVED; a
\* /claim on another ticket or the passage of time does not change it.
C29_LazyExpiry ==
    [][ \A t \in DOMAIN tickets \cap DOMAIN tickets' :
           tickets[t].status = "RESERVED" =>
               /\ tickets'[t].status = "AVAILABLE" =>
                      /\ \E r \in MReqs : ClaimStepOn(r, t)
                      /\ now - tickets[t].reservedAt > TimeoutMs
               /\ ( /\ \E r \in MReqs : ClaimStepOn(r, t)
                    /\ now - tickets[t].reservedAt <= TimeoutMs ) =>
                      tickets'[t].status = "RESERVED"
               /\ ( \/ \E r \in MReqs : \E u \in UUIDs \ {t} :
                           ClaimStepOn(r, u)
                    \/ now' # now ) =>
                      tickets'[t] = tickets[t] ]_vars

\* A claim found its ticket RESERVED for more than five minutes and the
\* gate full: the ticket is AVAILABLE again, its old reserved_at still on
\* it, and the receiver was sent to the waiting room.
C29_Witness ==
    \E r \in MReqs : \E t \in DOMAIN tickets :
        /\ mreq[r].op = "claim" /\ mreq[r].ticketId = t
        /\ mreq[r].resp.kind = "waiting"
        /\ tickets[t].status = "AVAILABLE"
        /\ tickets[t].reservedAt # NoTime
        /\ now - tickets[t].reservedAt > TimeoutMs

\* Request r is a receiver that was shown the waiting room.
InWaitingRoom(r) ==
    /\ mreq[r].op = "claim" /\ mreq[r].pc = "sent"
    /\ mreq[r].resp.kind = "waiting"

\* Request r holds the grant of its ticket.
HoldsGrant(r) == mreq[r].op = "claim" /\ mreq[r].pc = "claimPut"

\* The ticket of request r is still a key of the map and not CLAIMED.
ValidUnclaimed(r) ==
    /\ mreq[r].ticketId \in DOMAIN tickets
    /\ tickets[mreq[r].ticketId].status # "CLAIMED"

\* C30: when every granted receiver acks in the end and polls and acks are
\* delivered fairly, a receiver that was shown the waiting room and keeps
\* polling is granted its ticket in the end, as long as the ticket stays
\* valid and unclaimed.
C30_WaitingRoomLiveness ==
    \A r \in MReqs :
        InWaitingRoom(r) ~> (HoldsGrant(r) \/ ~ValidUnclaimed(r))

\* ------------------------------------------------------------ C31 .. C37
\* The session is replaced in this step when payload, MIME type or the set
\* of ticket ids changes.
SessionReplaced ==
    \/ file' # file
    \/ mimeType' # mimeType
    \/ DOMAIN tickets' # DOMAIN tickets

\* C31: whatever the interleaving of /init with a claim in flight, the
\* session is not replaced while a granted claim waits at its await, so the
\* Granted response for ticket T carries the payload and MIME type of the
\* session T belongs to; payload, MIME type and tickets are replaced in one
\* step of /init, all three together.
C31_SessionConsistency ==
    [][ /\ \A r \in MReqs :
              (mreq[r].op = "claim" /\ mreq[r].pc = "claimPut") =>
                  /\ ~SessionReplaced
                  /\ mreq'[r].pc = "done" =>
                         /\ mreq[r].ticketId \in DOMAIN tickets
                         /\ mreq'[r].resp.kind = "file"
                         /\ mreq'[r].resp.body = file
                         /\ mreq'[r].resp.contentType = mimeType
                         /\ mreq'[r].resp.xTicketId = mreq[r].ticketId
        /\ SessionReplaced =>
              \E r \in MReqs :
                  /\ InitStepBy(r)
                  /\ file' = ArrayBufferOf(mreq[r].file)
                  /\ mimeType' = mreq[r].file.type
                  /\ DOMAIN tickets' \cap DOMAIN tickets = {}
                  /\ \A t \in DOMAIN tickets' : t > nextUUID ]_vars

\* A claim was granted and answered with the payload of its session; an
\* upload that was racing with it has replaced the session since, and the
\* answer, not yet taken, still carries the old payload.
C31_Witness ==
    \E r \in MReqs :
        /\ mreq[r].op = "claim" /\ mreq[r].pc = "done"
        /\ mreq[r].resp.kind = "file"
        /\ mreq[r].ticketId \in PreviousIds
        /\ mreq[r].resp.body # file
        /\ \E q \in MReqs : mreq[q].op = "init" /\ mreq[q].pc = "putFile"

\* The object is rebuilt in this step: no request moves, the clock stands,
\* and the dispenser's memory changes.
RestartStep ==
    /\ UNCHANGED <<mreq, now, storage>>
    /\ <<file, mimeType, tickets, currentDownloads>>'
          # <<file, mimeType, tickets, currentDownloads>>

\* C32: when the dispenser is rebuilt from storage, the restored state has
\* the download counter equal to the number of RESERVED tickets, and at
\* most maxConcurrentDownloads tickets RESERVED.
C32_RestartConsistency ==
    [][ RestartStep =>
           /\ currentDownloads' =
                  Cardinality({t \in DOMAIN tickets' :
                                  tickets'[t].status = "RESERVED"})
           /\ Cardinality({t \in DOMAIN tickets' :
                              tickets'[t].status = "RESERVED"})
                  <= maxConcurrentDownloads ]_vars

\* An operator socket is open at both ends.
PageConnected ==
    \E s \in Sockets : s \in sellerSockets /\ sock[s].state = "open"

\* Everything sent has reached the page and no ack is on its way to a
\* broadcast.
AllDelivered ==
    /\ \A s \in Sockets : sock[s].outbox = << >>
    /\ \A r \in MReqs : mreq[r].op # "ack"

\* C33: while the operator page stays connected and receivers claim and
\* ack the tickets shown, the page's ticket list is never empty while the
\* session still has an AVAILABLE ticket, and every ticket of the session
\* is offered to the page in the end.
C33_DispenseAll ==
    /\ [] ( ( /\ PageConnected
              /\ AllDelivered
              /\ \E t \in DOMAIN tickets : tickets[t].status = "AVAILABLE" )
            => seller.massTickets # << >> )
    /\ \A t \in GateUUIDs :
          (PageConnected /\ t \in DOMAIN tickets) ~>
              \/ IncludesId(seller.massTickets, t)
              \/ t \notin DOMAIN tickets
              \/ tickets[t].status = "CLAIMED"
              \/ ~PageConnected

\* C34: once every message sent has been delivered, each ticket id in the
\* page's list, and the one shown as QR code, is a ticket of the current
\* session that is not CLAIMED.
C34_OperatorViewSound ==
    AllDelivered =>
        /\ \A i \in 1 .. Len(seller.massTickets) :
              /\ seller.massTickets[i] \in DOMAIN tickets
              /\ tickets[seller.massTickets[i]].status # "CLAIMED"
        /\ seller.currentTicketId # NoId =>
              /\ seller.currentTicketId \in DOMAIN tickets
              /\ tickets[seller.currentTicketId].status # "CLAIMED"

\* The claim requests that were answered with a bundle of ticket t.
BundlesOf(t) ==
    {r \in SReqs : /\ sreq[r].op = "claim"
                   /\ sreq[r].resp.kind = "bundle"
                   /\ sreq[r].ticket_id = t}

\* C35: a mint adds exactly one entry under a fresh id and a successful
\* claim of T removes exactly the entry T, every other pending ticket
\* keeping its content and MIME type; each pending ticket is claimable
\* exactly once: nothing was handed out for it yet and no ticket is ever
\* handed out twice.
C35_SingleTicketFrame ==
    /\ [][ \A r \in SReqs :
              /\ ( /\ sreq[r].op = "mint" /\ sreq[r].pc = "arrayBuffer"
                   /\ sreq'[r].pc = "done" ) =>
                     /\ sreq[r].ticket_id \notin DOMAIN TICKET_STORE
                     /\ DOMAIN TICKET_STORE' =
                            DOMAIN TICKET_STORE \cup {sreq[r].ticket_id}
                     /\ \A u \in DOMAIN TICKET_STORE :
                            TICKET_STORE'[u] = TICKET_STORE[u]
              /\ ( /\ sreq[r].op = "claim" /\ sreq[r].pc = "wrapKey"
                   /\ sreq'[r].resp.kind = "bundle" ) =>
                     /\ DOMAIN TICKET_STORE' =
                            DOMAIN TICKET_STORE \ {sreq[r].ticket_id}
                     /\ \A u \in DOMAIN TICKET_STORE' :
                            TICKET_STORE'[u] = TICKET_STORE[u] ]_vars
    /\ [] ( \A t \in UUIDs :
               /\ Cardinality(BundlesOf(t)) <= 1
               /\ StoreHas(TICKET_STORE, t) => BundlesOf(t) = {} )

\* The worker answers the claim of request r in this step, the dispenser
\* having granted it.
GatewayEncryptsFor(r) ==
    /\ mreq[r].op = "claim" /\ mreq[r].pc = "done"
    /\ mreq[r].resp.kind = "file"
    /\ mreq'[r].pc = "sent"

\* C36: for every granted claim of ticket T the worker encrypts under the
\* key the receiver derives from T, so that decrypting the answer with the
\* IV of the X-IV header gives back exactly the payload the dispenser
\* answered with; the key is that of the ticket id alone, the same for
\* every answer to a claim of T whatever the IV and the payload.
C36_MassRoundTrip ==
    [][ \A r \in MReqs : GatewayEncryptsFor(r) =>
           LET tid == mreq[r].ticketId
               res == mreq'[r].resp
           IN /\ res.kind = "encrypted"
              /\ res.body.key = ReceiverDeriveKey(tid)
              /\ ReceiverDecrypts(tid, res) = mreq[r].resp.body
              /\ ReceiverDecrypts(tid, res) # NoContent
              /\ \A q \in MReqs :
                     ( /\ mreq'[q].pc = "sent"
                       /\ mreq'[q].resp.kind = "encrypted"
                       /\ mreq'[q].ticketId = tid ) =>
                         mreq'[q].resp.body.key = res.body.key ]_vars

\* Two claims of one ticket were both granted and answered under different
\* IVs; the receiver decrypts either answer to the payload of the session.
C36_Witness ==
    \E r, q \in MReqs :
        /\ r # q
        /\ mreq[r].pc = "sent" /\ mreq[q].pc = "sent"
        /\ mreq[r].resp.kind = "encrypted"
        /\ mreq[q].resp.kind = "encrypted"
        /\ mreq[r].ticketId = mreq[q].ticketId
        /\ mreq[r].resp.xIV # mreq[q].resp.xIV
        /\ ReceiverOn(mreq[r].resp) = "decrypt"
        /\ ReceiverDecrypts(mreq[r].ticketId, mreq[r].resp) = file
        /\ ReceiverDecrypts(mreq[q].ticketId, mreq[q].resp) = file
        /\ file # NoContent

\* Request r is a claim whose answer has reached the page.
Answered(r) == mreq[r].op = "claim" /\ mreq[r].pc = "sent"

\* C37: the receiver page posts an ack for ticket T only when the answer to
\* its claim of T is the encrypted file and it has decrypted it; it posts
\* none after the waiting room, an error answer or a failed decryption, and
\* the flow that has posted its ack ends without posting another.
C37_AckOrdering ==
    [][ \A r \in MReqs :
           /\ (mreq'[r].op = "ack" /\ mreq[r].op # "ack") =>
                  /\ Answered(r)
                  /\ mreq[r].resp.status = 200
                  /\ mreq[r].resp.kind = "encrypted"
                  /\ ReceiverDecrypts(mreq[r].ticketId, mreq[r].resp)
                         # NoContent
                  /\ mreq'[r].ticketId = mreq[r].ticketId
           /\ ( /\ Answered(r)
                /\ \/ mreq[r].resp.kind \in {"waiting", "invalid", "used"}
                   \/ /\ mreq[r].resp.kind = "encrypted"
                      /\ ReceiverDecrypts(mreq[r].ticketId, mreq[r].resp)
                             = NoContent ) =>
                  mreq'[r].op # "ack"
           /\ mreq[r].op = "ack" =>
                  \/ mreq'[r] = IdleMReq
                  \/ /\ mreq'[r].op = "ack"
                     /\ mreq'[r].ticketId = mreq[r].ticketId ]_vars

\* One page has decrypted the file of its ticket and has just posted the
\* ack; another was granted a ticket too, but its answer did not decrypt and
\* it went without an ack, its ticket still RESERVED; a third is shown the
\* waiting room.
C37_Witness ==
    \E r, w \in MReqs :
        /\ mreq[r].op = "ack" /\ mreq[r].pc = "json"
        /\ mreq[r].ticketId \in DOMAIN tickets
        /\ tickets[mreq[r].ticketId].status = "RESERVED"
        /\ Answered(w)
        /\ mreq[w].resp.kind = "waiting"
        /\ \E t \in DOMAIN tickets :
               /\ tickets[t].status = "RESERVED"
               /\ \A q \in MReqs : mreq[q].ticketId # t
====
